---- MODULE Spec2Model ----
(***************************************************************************)
(* Decision pipeline of the air-quality controller: the control decision  *)
(* agent (rule path and model-reply path) under the orchestrator's safety *)
(* rules.                                                                  *)
(*                                                                         *)
(* Units.  Sensor values are integers in the sensors' own units.          *)
(* Confidence is in hundredths (0.6 is 60).  Severity, the maximum of     *)
(* pm25/150, co/100 and voc/500, is kept exactly as a numerator over      *)
(* SevDen = 1500, so that severity = 0.8 is 1200.  A fan_intensity found  *)
(* in a model reply is in halves (12.5 is 25) so that a value midway      *)
(* between two levels can be written.  An optional value is a sequence of *)
(* length 0 or 1.                                                          *)
(***************************************************************************)
EXTENDS Integers, Sequences, FiniteSets, TLC

VARIABLES
    use_mock_ai,     \* settings.USE_MOCK_AI
    reading,         \* context["current_reading"]
    prediction,      \* context["prediction"]
    classification,  \* context["classification"].air_type.value
    raw_response,    \* the model's reply on the parse path, <<>> if none
    agent_decision,  \* what ControlDecisionAgent.execute returned
    decision,        \* what process() returned
    pc,              \* "ready": context built; "decided": process() returned
    logger_cfg,      \* BlockchainLogger: enabled, contract, account
    ledger,          \* BlockchainLogger.ledger
    last_call,       \* the logger call that returned last, and what it returned
    history,         \* Reading Store: the readings kept, by device
    appended,        \* every reading ever stored, by device
    data_rows,       \* predict_next_n: data
    current_window,  \* predict_next_n: current_window
    predictions,     \* predict_next_n: predictions
    predict_call,    \* the last call of SmokeModelService.predict
    in_flight,       \* the process() calls that have not returned
    latest_decisions, \* DecisionOrchestrator.latest_decisions, by device
    runs,            \* the process() calls that returned, in that order
    dashboard,       \* the last response of get_dashboard_data
    classifier_call, \* the last call of the classifier agent
    forecast_call,   \* the last call of the prediction agent
    feature_call,    \* the last window given to the two feature extractors
    model_service,   \* the prediction agent's SmokeModelService: its loaded model
    model_call       \* the last predict call made on that service

decisionVars == <<use_mock_ai, reading, prediction, classification,
                  raw_response, agent_decision, decision, pc>>

ledgerVars == <<logger_cfg, ledger, last_call>>

windowVars == <<history, appended, data_rows, current_window, predictions,
                predict_call>>

pipelineVars == <<in_flight, latest_decisions, runs, dashboard>>

agentVars == <<classifier_call, forecast_call, feature_call, model_service,
               model_call>>

vars == <<decisionVars, ledgerVars, windowVars, pipelineVars, agentVars>>

\* The logger as constructed with BLOCKCHAIN_ENABLED off, nothing logged.
NoCall == [op |-> "none"]

LedgerIdle ==
    /\ logger_cfg = [enabled |-> FALSE, contract |-> FALSE, account |-> FALSE]
    /\ ledger = <<>>
    /\ last_call = NoCall

\* An empty Reading Store, no data file loaded, predict not yet called.
WindowIdle ==
    /\ history = [d \in {"esp32_001", "esp32_002"} |-> <<>>]
    /\ appended = [d \in {"esp32_001", "esp32_002"} |-> <<>>]
    /\ data_rows = <<>>
    /\ current_window = <<>>
    /\ predictions = <<>>
    /\ predict_call = [called |-> FALSE, given |-> <<>>, window |-> <<>>,
                       features_extracted |-> FALSE,
                       model_invoked |-> FALSE, returned |-> 0]

\* No process() call made, an empty cache, no dashboard query made.
PipelineIdle ==
    /\ in_flight = {}
    /\ latest_decisions = [d \in {"esp32_001", "esp32_002"} |-> <<>>]
    /\ runs = <<>>
    /\ dashboard = [called |-> FALSE]

\* No agent called outside a pipeline run.
AgentsIdle ==
    /\ classifier_call = [path |-> "none"]
    /\ forecast_call = [made |-> FALSE]
    /\ feature_call = [made |-> FALSE]
    /\ model_service = [state |-> "not constructed"]
    /\ model_call = [made |-> FALSE]

---------------------------------------------------------------------------
(* Bounds of the model *)

\* Distance of the sample taken just above each threshold.
Eps == 1

---------------------------------------------------------------------------
(* Arithmetic helpers *)

Max2(a, b) == IF a >= b THEN a ELSE b

Min2(a, b) == IF a <= b THEN a ELSE b

Abs(a) == IF a >= 0 THEN a ELSE 0 - a

\* Common denominator of the three severity ratios.
SevDen == 1500

\* n tenths as a numerator over SevDen.
Tenths(n) == (n * SevDen) \div 10

AirTypes == {"cigarette", "vehicle", "cooking", "chemical", "clean", "unknown"}

NoReason == "None"

SafetyOverride == "Safety Protocol Activated"

---------------------------------------------------------------------------
(* ControlDecisionAgent *)

allowed_levels == <<0, 25, 50, 75, 100>>

\* max(pm25 / 150, co / 100, voc / 500), over SevDen
severity(current) ==
    Max2(current.pm25 * (SevDen \div 150),
         Max2(current.co * (SevDen \div 100), current.voc * (SevDen \div 500)))

\* Mutant: the CO check takes the fan on at 50 itself.
thresholds_exceeded_at_co(current) ==
    current.pm25 > 35 \/ current.co >= 50 \/ current.voc > 200

\* The three threshold checks that switch the fan on.
thresholds_exceeded(current) ==
    current.pm25 > 35 \/ current.co > 50 \/ current.voc > 200

threshold_reasons(current) ==
    (IF current.pm25 > 35 THEN <<"PM2.5 elevated">> ELSE <<>>)
    \o (IF current.co > 50 THEN <<"CO high">> ELSE <<>>)
    \o (IF current.voc > 200 THEN <<"VOC elevated">> ELSE <<>>)

\* Mutant: each step is taken at its threshold, not above it.
general_intensity_at(sev) ==
    IF sev >= Tenths(8) THEN 100
    ELSE IF sev >= Tenths(6) THEN 75
    ELSE IF sev >= Tenths(4) THEN 50
    ELSE 25

\* General intensity based on severity (the else branch).
general_intensity(sev) ==
    IF sev > Tenths(8) THEN 100
    ELSE IF sev > Tenths(6) THEN 75
    ELSE IF sev > Tenths(4) THEN 50
    ELSE 25

\* Mutant: the label steps are taken above their thresholds, not at them.
air_type_intensity_above(air_type, sev) ==
    IF air_type = "chemical" THEN 100
    ELSE IF air_type = "cigarette" \/ air_type = "vehicle"
         THEN (IF sev <= Tenths(8) THEN 75 ELSE 100)
    ELSE IF air_type = "cooking"
         THEN (IF sev <= Tenths(6) THEN 50 ELSE 75)
    ELSE general_intensity(sev)

\* Mutant: chemical fumes get the high level, not the maximum.
air_type_intensity_chemical_high(air_type, sev) ==
    IF air_type = "chemical" THEN 75
    ELSE IF air_type = "cigarette" \/ air_type = "vehicle"
         THEN (IF sev < Tenths(8) THEN 75 ELSE 100)
    ELSE IF air_type = "cooking"
         THEN (IF sev < Tenths(6) THEN 50 ELSE 75)
    ELSE general_intensity(sev)

\* Adjust for air type.
air_type_intensity(air_type, sev) ==
    IF air_type = "chemical" THEN 100
    ELSE IF air_type = "cigarette" \/ air_type = "vehicle"
         THEN (IF sev < Tenths(8) THEN 75 ELSE 100)
    ELSE IF air_type = "cooking"
         THEN (IF sev < Tenths(6) THEN 50 ELSE 75)
    ELSE general_intensity(sev)

air_type_reasons(air_type) ==
    IF air_type = "chemical" THEN <<"Chemical fumes detected - max ventilation">>
    ELSE IF air_type = "cigarette" \/ air_type = "vehicle"
         THEN <<"smoke - high ventilation">>
    ELSE IF air_type = "cooking" THEN <<"Cooking smoke - moderate ventilation">>
    ELSE <<>>

\* Mutant: the boost is taken at confidence 0.6 itself.
boost_applies_at(pred, intensity) ==
    pred.will_peak /\ pred.confidence >= 60 /\ intensity < 100

\* Whether the peak boost changes the intensity.
boost_applies(pred, intensity) ==
    pred.will_peak /\ pred.confidence > 60 /\ intensity < 100

\* Boost if peak predicted.
peak_boost(pred, intensity) ==
    IF boost_applies(pred, intensity) THEN Min2(100, intensity + 25) ELSE intensity

\* Mutant: a running fan is reported as a safety override.
generate_mock_response_override(current, pred, air_type) ==
    LET on == thresholds_exceeded(current)
        base == air_type_intensity(air_type, severity(current))
    IN  [fan_on |-> on,
         fan_intensity |-> IF on THEN peak_boost(pred, base) ELSE 0,
         reasoning |-> <<>>,
         override_reason |-> IF on THEN SafetyOverride ELSE NoReason]

generate_mock_response(current, pred, air_type) ==
    LET on == thresholds_exceeded(current)
        sev == severity(current)
        base == air_type_intensity(air_type, sev)
    IN  [fan_on |-> on,
         fan_intensity |-> IF on THEN peak_boost(pred, base) ELSE 0,
         reasoning |->
             IF on
             THEN threshold_reasons(current) \o air_type_reasons(air_type)
                  \o (IF boost_applies(pred, base)
                      THEN <<"Boosted for predicted peak">> ELSE <<>>)
             ELSE <<"Air quality good - fan off">>,
         override_reason |-> NoReason]

\* Mutant: the reply's value is clamped to 0..100 and not snapped.
nearest_level_clamped(raw2) == Max2(0, Min2(100, raw2 \div 2))

\* Mutant: of two levels at the same distance the last one is taken.
nearest_level_last(raw2) ==
    LET dist(i) == Abs(2 * allowed_levels[i] - raw2)
        best == CHOOSE i \in 1..Len(allowed_levels) :
                    \A j \in 1..Len(allowed_levels) :
                        dist(i) < dist(j) \/ (dist(i) = dist(j) /\ i >= j)
    IN  allowed_levels[best]

\* min(allowed_levels, key=lambda x: abs(x - fan_intensity)): the first level
\* at the least distance.  raw2 is the reply's value in halves.
nearest_level(raw2) ==
    LET dist(i) == Abs(2 * allowed_levels[i] - raw2)
        best == CHOOSE i \in 1..Len(allowed_levels) :
                    \A j \in 1..Len(allowed_levels) :
                        dist(i) < dist(j) \/ (dist(i) = dist(j) /\ i <= j)
    IN  allowed_levels[best]

\* data.get(key, default) for an optional field
get_or(field, default) == IF Len(field) = 0 THEN default ELSE field[1]

parse_response(data) ==
    [fan_on |-> get_or(data.fan_on, FALSE),
     fan_intensity |-> nearest_level(get_or(data.fan_intensity, 0)),
     reasoning |-> <<get_or(data.reasoning, "No reasoning provided")>>,
     override_reason |-> get_or(data.override_reason, NoReason)]

---------------------------------------------------------------------------
(* DecisionOrchestrator: the safety rules ahead of the agent's decision *)

\* Mutant: rule 1 looks at the raw gas reading only.
immediate_danger_gas_only(current) ==
    Len(current.mq2_raw) > 0 /\ current.mq2_raw[1] > 400

\* Rule 1, immediate danger.
immediate_danger(current) ==
    current.co > 200 \/ (Len(current.mq2_raw) > 0 /\ current.mq2_raw[1] > 400)

\* Mutant: rule 2 asks for confidence above 0.9.
preemptive_peak_strict(pred) == pred.will_peak /\ pred.confidence > 90

\* Rule 2, pre-emptive.
preemptive_peak(pred) == pred.will_peak /\ pred.confidence > 80

\* Mutant: rule 3 tests the lower threshold first, which hides the higher.
particulate_intensity_shadowed(current) ==
    IF current.pm25 > 75 THEN 75 ELSE IF current.pm25 > 150 THEN 100 ELSE 0

\* Rule 3, particulate thresholds.
particulate_intensity(current) ==
    IF current.pm25 > 150 THEN 100 ELSE IF current.pm25 > 75 THEN 75 ELSE 0

\* The maximum over the rules that fired, 0 if none did.
safety_intensity(current, pred) ==
    Max2(IF immediate_danger(current) THEN 100 ELSE 0,
         Max2(IF preemptive_peak(pred) THEN 100 ELSE 0,
              particulate_intensity(current)))

safety_reasons(current, pred) ==
    (IF immediate_danger(current)
     THEN <<"CRITICAL: High Smoke/CO levels detected.">> ELSE <<>>)
    \o (IF preemptive_peak(pred) THEN <<"Predicted peak">> ELSE <<>>)
    \o (IF current.pm25 > 150 THEN <<"Hazardous">>
        ELSE IF current.pm25 > 75 THEN <<"Unhealthy">> ELSE <<>>)

\* Rules 4 and 5: the safety decision if a rule fired, else the agent's.
decide(current, pred, agent) ==
    IF safety_intensity(current, pred) > 0
    THEN [fan_on |-> TRUE,
          fan_intensity |-> safety_intensity(current, pred),
          reasoning |-> safety_reasons(current, pred),
          override_reason |-> SafetyOverride]
    ELSE agent

---------------------------------------------------------------------------
(* Inputs *)

\* Thresholds the rules compare each channel against, and a value below all.
Pm25Thresholds == {35, 60, 75, 90, 120, 150}

CoThresholds == {40, 50, 60, 80, 200}

VocThresholds == {200, 300, 400}

ConfThresholds == {60, 80}

Samples(thresholds) == thresholds \cup {t + Eps : t \in thresholds}

Pm25Values == {10} \cup Samples(Pm25Thresholds)

CoValues == {5} \cup Samples(CoThresholds)

VocValues == {30} \cup Samples(VocThresholds)

Mq2Values == {<<>>} \cup {<<v>> : v \in Samples({400})}

Reading(pm25, co2, co, voc, mq2) ==
    [pm25 |-> pm25, co2 |-> co2, co |-> co, voc |-> voc, mq2_raw |-> mq2]

Forecast(will_peak, confidence) ==
    [will_peak |-> will_peak, confidence |-> confidence]

GridReadings ==
    {Reading(p, 450, c, v, m) :
        p \in Pm25Values, c \in CoValues, v \in VocValues, m \in Mq2Values}

GridForecasts == {Forecast(w, c) : w \in BOOLEAN, c \in Samples(ConfThresholds)}

\* The four named scenarios: reading, forecast, label.
ScenarioA == <<Reading(15, 450, 250, 50, <<>>), Forecast(FALSE, 60), "unknown">>

ScenarioB == <<Reading(10, 400, 5, 30, <<>>), Forecast(FALSE, 60), "clean">>

ScenarioC == <<Reading(40, 450, 20, 50, <<>>), Forecast(FALSE, 60), "cigarette">>

ScenarioD == <<Reading(10, 400, 5, 30, <<>>), Forecast(TRUE, 85), "clean">>

Scenarios == {ScenarioA, ScenarioB, ScenarioC, ScenarioD}

Contexts == (GridReadings \X GridForecasts \X AirTypes) \cup Scenarios

\* Replies of the model: fan_intensity in halves, at and around the midpoints
\* between levels, below 0 and above 100; every field may be missing.
ReplyIntensities ==
    {<<>>} \cup {<<v>> : v \in {0 - 20, 0, 25 - Eps, 25, 25 + Eps, 75, 125,
                                 175, 200, 200 + 60}}

Replies ==
    [fan_on : {<<>>, <<TRUE>>, <<FALSE>>},
     fan_intensity : ReplyIntensities,
     reasoning : {<<"model text">>},
     override_reason : {<<>>, <<"model text">>}]

NoDecision ==
    [fan_on |-> FALSE, fan_intensity |-> 0, reasoning |-> <<>>,
     override_reason |-> NoReason]

---------------------------------------------------------------------------
(* Operations *)

\* BaseAgent.execute with USE_MOCK_AI set: the rule path.
ExecuteMock(ctx) ==
    /\ use_mock_ai
    /\ raw_response' = <<>>
    /\ agent_decision' = generate_mock_response(ctx[1], ctx[2], ctx[3])

\* BaseAgent.execute calling the model: the parse path.
ExecuteModel ==
    /\ ~use_mock_ai
    /\ \E data \in Replies :
          /\ raw_response' = <<data>>
          /\ agent_decision' = parse_response(data)

\* process(reading) on context ctx.
Run(ctx) ==
    /\ ExecuteMock(ctx) \/ ExecuteModel
    /\ reading' = ctx[1]
    /\ prediction' = ctx[2]
    /\ classification' = ctx[3]
    /\ decision' = decide(ctx[1], ctx[2], agent_decision')
    /\ pc' = "decided"
    /\ UNCHANGED use_mock_ai
    /\ UNCHANGED <<ledgerVars, windowVars, pipelineVars, agentVars>>

Process ==
    /\ pc = "ready"
    /\ Run(<<reading, prediction, classification>>)

\* The least sample above v, or v itself at the top of the samples.
NextAbove(values, v) ==
    IF \E w \in values : w > v
    THEN CHOOSE w \in values : w > v /\ \A u \in values : u > v => w <= u
    ELSE v

\* The next reading differs from the last in one channel, which is one
\* sample higher; the rule path decides again.
RaisePm25 ==
    /\ pc = "decided" /\ use_mock_ai
    /\ NextAbove(Pm25Values, reading.pm25) > reading.pm25
    /\ Run(<<[reading EXCEPT !.pm25 = NextAbove(Pm25Values, reading.pm25)],
             prediction, classification>>)

RaiseCo ==
    /\ pc = "decided" /\ use_mock_ai
    /\ NextAbove(CoValues, reading.co) > reading.co
    /\ Run(<<[reading EXCEPT !.co = NextAbove(CoValues, reading.co)],
             prediction, classification>>)

RaiseVoc ==
    /\ pc = "decided" /\ use_mock_ai
    /\ NextAbove(VocValues, reading.voc) > reading.voc
    /\ Run(<<[reading EXCEPT !.voc = NextAbove(VocValues, reading.voc)],
             prediction, classification>>)

\* The classifier gives another label for the same reading and forecast;
\* the rule path decides again.
Relabel ==
    /\ pc = "decided" /\ use_mock_ai
    /\ \E l \in AirTypes \ {classification} :
          Run(<<reading, prediction, l>>)

\* The context process() is first called on.  On the rule path it is any
\* sampled context; on the parse path the agent's decision comes from the
\* reply alone, and the context is one of the four scenarios.
Init ==
    /\ use_mock_ai \in BOOLEAN
    /\ \E ctx \in (IF use_mock_ai THEN Contexts ELSE Scenarios) :
          /\ reading = ctx[1]
          /\ prediction = ctx[2]
          /\ classification = ctx[3]
    /\ raw_response = <<>>
    /\ agent_decision = NoDecision
    /\ decision = NoDecision
    /\ pc = "ready"
    /\ LedgerIdle
    /\ WindowIdle
    /\ PipelineIdle
    /\ AgentsIdle

Next == Process \/ RaisePm25 \/ RaiseCo \/ RaiseVoc \/ Relabel

Spec == Init /\ [][Next]_vars

---------------------------------------------------------------------------
(* BlockchainLogger (blockchain/logger.py).  A timestamp is the position   *)
(* the entry takes in the ledger; a hash is a record that says whether it  *)
(* is a transaction hash or the SHA-256 of the entry's content.            *)

\* The most entries logged in one behaviour.
MaxLedger == 3

Devices == {"esp32_001", "esp32_002"}

\* __init__: with BLOCKCHAIN_ENABLED the connection is set up; a failure of
\* the set-up turns the logger to its simulated ledger.  init_raises is
\* "connect" (nothing loaded yet), "contract" (the account is loaded, the
\* contract is not) or "none".
logger_init(blockchain_enabled, private_key, contract_address, init_raises) ==
    IF ~blockchain_enabled \/ init_raises = "connect"
    THEN [enabled |-> FALSE, contract |-> FALSE, account |-> FALSE]
    ELSE IF init_raises = "contract"
    THEN [enabled |-> FALSE, contract |-> FALSE, account |-> private_key]
    ELSE [enabled |-> TRUE, contract |-> contract_address,
          account |-> private_key]

\* if self.enabled and self.contract and self.account
writes_externally(cfg) == cfg.enabled /\ cfg.contract /\ cfg.account

\* What the external write can do in a call.
WriteOutcomes(cfg) ==
    IF writes_externally(cfg) THEN {"ok", "raises"} ELSE {"not attempted"}

\* _generate_mock_hash: SHA-256 over event_type, timestamp, device_id, data.
generate_mock_hash(log_entry) ==
    [kind |-> "sha256",
     of |-> <<log_entry.event_type, log_entry.timestamp,
              log_entry.device_id, log_entry.data>>]

\* _write_decision_to_blockchain / _write_fault_to_blockchain returning.
tx_hash(now) == [kind |-> "tx", of |-> <<now>>]

NoHash == [kind |-> "none", of |-> <<>>]

\* As set_hash, but a failed write leaves the entry without a hash.
set_hash_unset(cfg, outcome, log_entry, now) ==
    IF writes_externally(cfg) /\ outcome = "raises"
    THEN NoHash
    ELSE IF writes_externally(cfg) THEN tx_hash(now)
    ELSE generate_mock_hash(log_entry)

\* The hash the entry gets: the transaction hash of a write that returned,
\* the content hash after a write that raised or was not attempted.
set_hash(cfg, outcome, log_entry, now) ==
    IF writes_externally(cfg)
    THEN IF outcome = "ok"
         THEN tx_hash(now)
         ELSE generate_mock_hash(log_entry)
    ELSE generate_mock_hash(log_entry)

\* As decision_log_data, without the forecast's keys.
decision_log_data_bare(d, pred) ==
    [fan_on |-> d.fan_on,
     fan_intensity |-> d.fan_intensity,
     reasoning |-> d.reasoning,
     override_reason |-> d.override_reason,
     predicted_smoke_peak |-> <<>>,
     prediction_confidence |-> <<>>]

\* log_data of log_decision; a key that is absent is <<>>.
decision_log_data(d, pred) ==
    [fan_on |-> d.fan_on,
     fan_intensity |-> d.fan_intensity,
     reasoning |-> d.reasoning,
     override_reason |-> d.override_reason,
     predicted_smoke_peak |->
         IF Len(pred) > 0 THEN <<pred[1].estimated_peak_value>> ELSE <<>>,
     prediction_confidence |->
         IF Len(pred) > 0 THEN <<pred[1].confidence>> ELSE <<>>]

fault_log_data(fault, healing) ==
    [fault_type |-> fault.fault_type,
     affected_sensor |-> fault.affected_sensor,
     severity |-> fault.severity,
     details |-> fault.details,
     healing_action |-> healing.action_taken,
     ignored_sensors |-> healing.ignored_sensors]

\* The entry log_decision / log_fault builds, appends and returns.
log_entry_of(cfg, event_type, device_id, data, outcome, now) ==
    LET log_entry == [event_type |-> event_type, timestamp |-> now,
                      device_id |-> device_id, data |-> data]
    IN  [event_type |-> event_type, timestamp |-> now,
         device_id |-> device_id, data |-> data,
         hash |-> set_hash(cfg, outcome, log_entry, now)]

log_decision(cfg, device_id, d, pred, outcome, now) ==
    log_entry_of(cfg, "decision", device_id, decision_log_data(d, pred),
                 outcome, now)

log_fault(cfg, device_id, fault, healing, outcome, now) ==
    log_entry_of(cfg, "fault", device_id, fault_log_data(fault, healing),
                 outcome, now)

\* Mutant: the entry is put in front of the ledger.
ledger_prepend(led, log_entry) == <<log_entry>> \o led

\* self.ledger.append(log_entry)
ledger_append(led, log_entry) == Append(led, log_entry)

\* Python's seq[start:] for any integer start.
slice_from(seq, start) ==
    LET from == IF start < 0
                THEN Max2(Len(seq) + start, 0)
                ELSE Min2(start, Len(seq))
    IN  SubSeq(seq, from + 1, Len(seq))

\* logs[-limit:] if len(logs) > limit else logs
last_logs(logs, limit) ==
    IF Len(logs) > limit THEN slice_from(logs, 0 - limit) ELSE logs

get_recent_logs(led, limit) == last_logs(led, limit)

get_logs_by_device(led, device_id, limit) ==
    last_logs(SelectSeq(led, LAMBDA log : log.device_id = device_id), limit)

\* What the callers log: the decision of scenario A (a safety override)
\* with its forecast, and the decision of scenario B (fan off) without one.
SmokePrediction(will_peak, confidence, estimated_peak_value) ==
    [will_peak |-> will_peak, confidence |-> confidence,
     estimated_peak_value |-> estimated_peak_value]

DecisionOf(ctx) ==
    decide(ctx[1], ctx[2], generate_mock_response(ctx[1], ctx[2], ctx[3]))

LoggedDecisions ==
    {<<DecisionOf(ScenarioA), <<SmokePrediction(FALSE, 60, 250)>>>>,
     <<DecisionOf(ScenarioB), <<>>>>}

SampleFault ==
    [fault_type |-> "stuck_sensor", affected_sensor |-> "pm25",
     severity |-> "medium", details |-> "fault text"]

SampleHealing ==
    [action_taken |-> "healing text", ignored_sensors |-> <<"pm25">>]

QueryLimits == 0 .. 2

LogDecision ==
    /\ Len(ledger) < MaxLedger
    /\ \E device_id \in Devices, call \in LoggedDecisions,
          outcome \in WriteOutcomes(logger_cfg) :
          LET log_entry == log_decision(logger_cfg, device_id, call[1],
                                        call[2], outcome, Len(ledger) + 1)
          IN  /\ ledger' = ledger_append(ledger, log_entry)
              /\ last_call' = [op |-> "log_decision",
                               device_id |-> device_id,
                               decision |-> call[1],
                               prediction |-> call[2],
                               outcome |-> outcome,
                               returned |-> <<log_entry>>]
    /\ UNCHANGED <<decisionVars, windowVars, pipelineVars, agentVars,
                   logger_cfg>>

LogFault ==
    /\ Len(ledger) < MaxLedger
    /\ \E device_id \in Devices, outcome \in WriteOutcomes(logger_cfg) :
          LET log_entry == log_fault(logger_cfg, device_id, SampleFault,
                                     SampleHealing, outcome, Len(ledger) + 1)
          IN  /\ ledger' = ledger_append(ledger, log_entry)
              /\ last_call' = [op |-> "log_fault",
                               device_id |-> device_id,
                               outcome |-> outcome,
                               returned |-> <<log_entry>>]
    /\ UNCHANGED <<decisionVars, windowVars, pipelineVars, agentVars,
                   logger_cfg>>

GetRecentLogs ==
    /\ \E limit \in QueryLimits :
          last_call' = [op |-> "get_recent_logs", limit |-> limit,
                        returned |-> get_recent_logs(ledger, limit)]
    /\ UNCHANGED <<decisionVars, windowVars, pipelineVars, agentVars,
                   logger_cfg,
                   ledger>>

GetLogsByDevice ==
    /\ \E device_id \in Devices, limit \in QueryLimits :
          last_call' = [op |-> "get_logs_by_device",
                        device_id |-> device_id, limit |-> limit,
                        returned |-> get_logs_by_device(ledger, device_id,
                                                        limit)]
    /\ UNCHANGED <<decisionVars, windowVars, pipelineVars, agentVars,
                   logger_cfg,
                   ledger>>

\* The decision pipeline at rest on scenario B.
DecisionIdle ==
    /\ use_mock_ai = TRUE
    /\ reading = ScenarioB[1]
    /\ prediction = ScenarioB[2]
    /\ classification = ScenarioB[3]
    /\ raw_response = <<>>
    /\ agent_decision = NoDecision
    /\ decision = NoDecision
    /\ pc = "ready"

InitLedger ==
    /\ DecisionIdle
    /\ \E blockchain_enabled \in BOOLEAN, contract_address \in BOOLEAN,
          init_raises \in {"none", "connect", "contract"} :
          logger_cfg = logger_init(blockchain_enabled, TRUE,
                                   contract_address, init_raises)
    /\ ledger = <<>>
    /\ last_call = NoCall
    /\ WindowIdle
    /\ PipelineIdle
    /\ AgentsIdle

NextLedger == LogDecision \/ LogFault \/ GetRecentLogs \/ GetLogsByDevice

SpecLedger == InitLedger /\ [][NextLedger]_vars

---------------------------------------------------------------------------
(* Reading Store and SmokeModelService (services/smoke_model_service.py),  *)
(* with the two callers of predict: SmokePredictionAgent.execute on the    *)
(* store's readings (objects) and predict_next_n on rows of the data file  *)
(* (dicts).  A reading is [kind, fields] with kind "object" or "dict".     *)
(* In a dict row co is in halves, as predict_next_n moves it by 0.5.       *)

\* self.window_size; the Reading Store's W.
window_size == 10

\* df.tail(50)
tail_rows == 50

\* predict_next_n(n=5)
n_steps == 5

\* The most readings stored in one behaviour, over all devices.
MaxAppends == 12

is_dict(r) == r.kind = "dict"

\* d.get(key, default)
dict_get(d, key, default) ==
    IF key \in DOMAIN d.fields THEN d.fields[key] ELSE default

\* getattr(obj, name, default)
getattr(obj, name, default) ==
    IF name \in DOMAIN obj.fields THEN obj.fields[name] ELSE default

\* {}
EmptyDict == [kind |-> "dict", fields |-> <<>>]

\* The k-th reading stored, for device_id: a SensorReading.
SensorReading(device_id, k) ==
    [kind |-> "object",
     fields |-> [device_id |-> device_id, timestamp |-> k,
                 pm25 |-> 15 + k, co2 |-> 450, co |-> 10 + 2 * k,
                 voc |-> 50 + k]]

\* The i-th row of the data file, as in test_scenarios.py (rapid rise).
Row(i) ==
    [kind |-> "dict",
     fields |-> [mq2_raw |-> 220 + 25 * i, pm25 |-> 15 + 12 * i,
                 co |-> 2 * (10 + 10 * i), voc |-> 50 + 15 * i,
                 temperature |-> 25 + i, humidity |-> Max2(30, 60 - 2 * i)]]

\* As window_of, taking the first window_size readings.
window_of_first(readings) == SubSeq(readings, 1, window_size)

\* readings[-self.window_size:]
window_of(readings) == slice_from(readings, 0 - window_size)

\* The dict a reading is normalised to before feature extraction.
window_dict(r) ==
    IF is_dict(r)
    THEN r
    ELSE [kind |-> "dict",
          fields |-> [mq2_raw |-> getattr(r, "co", 0),
                      pm25 |-> getattr(r, "pm25", 0),
                      co |-> 2 * getattr(r, "co", 0),
                      voc |-> getattr(r, "voc", 0),
                      temperature |-> getattr(r, "temperature", 25),
                      humidity |-> getattr(r, "humidity", 50)]]

\* The columns both extractors go through, in this order.
FeatureColumns == <<"mq2_raw", "pm25", "co", "voc", "temperature", "humidity">>

\* Feature values are exact fractions: numerator over a positive or, for
\* the slope, a non-zero denominator, as the formula gives them.
Fraction(num, den) == [num |-> num, den |-> den]

Whole(v) == Fraction(v, 1)

RECURSIVE SumSeq(_)
SumSeq(x) == IF Len(x) = 0 THEN 0 ELSE x[1] + SumSeq(Tail(x))

RECURSIVE MaxSeq(_)
MaxSeq(x) == IF Len(x) = 1 THEN x[1] ELSE Max2(x[1], MaxSeq(Tail(x)))

\* np.mean(x)
np_mean(x) == Fraction(SumSeq(x), Len(x))

\* np.polyfit(range(len(x)), x, 1)[0]: the least-squares slope of x over
\* the positions 0 .. len(x) - 1.
np_polyfit_slope(x) ==
    LET n == Len(x)
        sum_i == SumSeq([i \in 1 .. n |-> i - 1])
        sum_ii == SumSeq([i \in 1 .. n |-> (i - 1) * (i - 1)])
        sum_ix == SumSeq([i \in 1 .. n |-> (i - 1) * x[i]])
    IN  Fraction(n * sum_ix - sum_i * SumSeq(x), n * sum_ii - sum_i * sum_i)

\* Mutant: the delta is taken over one step, not two.
column_features_one_step(x) ==
    <<np_mean(x), Whole(MaxSeq(x)), Whole(x[Len(x)]),
      IF Len(x) > 1 THEN np_polyfit_slope(x) ELSE Whole(0),
      IF Len(x) >= 3 THEN Whole(x[Len(x)] - x[Len(x) - 1]) ELSE Whole(0)>>

\* The five statistics of one column in the serving extractor.
column_features(x) ==
    <<np_mean(x), Whole(MaxSeq(x)), Whole(x[Len(x)]),
      IF Len(x) > 1 THEN np_polyfit_slope(x) ELSE Whole(0),
      IF Len(x) >= 3 THEN Whole(x[Len(x)] - x[Len(x) - 2]) ELSE Whole(0)>>

\* The five statistics of one column in the training extractor.
training_column_features(x) ==
    <<np_mean(x), Whole(MaxSeq(x)), Whole(x[Len(x)]),
      IF Len(x) > 1 THEN np_polyfit_slope(x) ELSE Whole(0),
      IF Len(x) >= 3 THEN Whole(x[Len(x)] - x[Len(x) - 2]) ELSE Whole(0)>>

\* get_col(key): r.get(key, 0) of every row.
get_col(window_data, key) ==
    [i \in 1 .. Len(window_data) |-> dict_get(window_data[i], key, 0)]

\* window_df[col].values
df_col(window_df, col) ==
    [i \in 1 .. Len(window_df) |-> window_df[i].fields[col]]

RECURSIVE features_from(_, _)
features_from(window_data, cols) ==
    IF Len(cols) = 0 THEN <<>>
    ELSE column_features(get_col(window_data, cols[1]))
         \o features_from(window_data, Tail(cols))

RECURSIVE training_features_from(_, _)
training_features_from(window_df, cols) ==
    IF Len(cols) = 0 THEN <<>>
    ELSE training_column_features(df_col(window_df, cols[1]))
         \o training_features_from(window_df, Tail(cols))

\* SmokeModelService.extract_features
extract_features(window_data) == features_from(window_data, FeatureColumns)

\* extract_features of smoke_model.py
training_extract_features(window_df) ==
    training_features_from(window_df, FeatureColumns)

\* Mutant: with too few readings the last value is returned doubled.
predict_doubled(readings, model_output) ==
    IF Len(readings) < window_size
    THEN LET last_reading == IF Len(readings) > 0
                             THEN readings[Len(readings)]
                             ELSE EmptyDict
             val == IF is_dict(last_reading)
                    THEN dict_get(last_reading, "mq2", 0)
                    ELSE getattr(last_reading, "co", 0)
         IN  [called |-> TRUE, given |-> readings, window |-> <<>>,
              features_extracted |-> FALSE, model_invoked |-> FALSE,
              returned |-> 2 * val]
    ELSE [called |-> TRUE, given |-> readings, window |-> <<>>,
          features_extracted |-> TRUE, model_invoked |-> TRUE,
          returned |-> model_output]

\* SmokeModelService.predict.  model_output is what the trained model
\* answers when it is asked.  The result says what was handed to
\* extract_features, whether the model was invoked, and the return value.
predict(readings, model_output) ==
    IF Len(readings) < window_size
    THEN LET last_reading == IF Len(readings) > 0
                             THEN readings[Len(readings)]
                             ELSE EmptyDict
             val == IF is_dict(last_reading)
                    THEN dict_get(last_reading, "mq2", 0)
                    ELSE getattr(last_reading, "co", 0)
         IN  [called |-> TRUE, given |-> readings, window |-> <<>>,
              features_extracted |-> FALSE, model_invoked |-> FALSE,
              returned |-> val]
    ELSE LET window == window_of(readings)
         IN  [called |-> TRUE, given |-> readings,
              window |-> [i \in 1 .. Len(window) |-> window_dict(window[i])],
              features_extracted |-> TRUE, model_invoked |-> TRUE,
              returned |-> model_output]

NoPredict ==
    [called |-> FALSE, given |-> <<>>, window |-> <<>>, features_extracted |-> FALSE,
     model_invoked |-> FALSE, returned |-> 0]

\* What the trained model answers: a low value and a spike.
ModelOutputs == {150, 600}

\* Reading Store append: insert, evicting the oldest beyond W readings.
store_append(hist, r) ==
    IF Len(hist) >= window_size
    THEN Append(SubSeq(hist, Len(hist) - window_size + 2, Len(hist)), r)
    ELSE Append(hist, r)

\* predict_next_n: the reading made up after a predicted value.
next_reading(last_reading, next_val) ==
    LET f == last_reading.fields
        rising == next_val > f.mq2_raw + 5
        falling == ~rising /\ next_val < f.mq2_raw - 5
    IN  [kind |-> "dict",
         fields |-> [mq2_raw |-> next_val,
                     pm25 |-> IF rising THEN f.pm25 + 1
                              ELSE IF falling THEN Max2(0, f.pm25 - 1)
                              ELSE f.pm25,
                     co |-> IF rising THEN f.co + 1
                            ELSE IF falling THEN Max2(0, f.co - 1)
                            ELSE f.co,
                     voc |-> f.voc,
                     temperature |-> f.temperature,
                     humidity |-> f.humidity]]

\* Numbers of rows the data file holds.
RowCounts == {1, window_size - 1, window_size, window_size + 2,
              tail_rows + 2}

TotalAppended == Len(appended[CHOOSE d \in Devices : TRUE])
                 + Len(appended[CHOOSE d \in Devices :
                                   d # (CHOOSE e \in Devices : TRUE)])

\* store_reading: a reading of a device arrives and is stored.  predict
\* reads nothing but its argument, so a behaviour stores its readings
\* before it calls predict, and runs predict_next_n on an empty store.
StoreReading ==
    /\ TotalAppended < MaxAppends
    /\ predict_call = NoPredict
    /\ data_rows = <<>>
    /\ \E device_id \in Devices :
          LET r == SensorReading(device_id, TotalAppended + 1)
          IN  /\ history' = [history EXCEPT
                                ![device_id] = store_append(@, r)]
              /\ appended' = [appended EXCEPT ![device_id] = Append(@, r)]
    /\ UNCHANGED <<decisionVars, ledgerVars, pipelineVars, agentVars,
                   data_rows,
                   current_window, predictions, predict_call>>

\* SmokePredictionAgent.execute on the device's stored readings.
PredictFromStore ==
    /\ data_rows = <<>>
    /\ \E device_id \in Devices, model_output \in ModelOutputs :
          predict_call' = predict(history[device_id], model_output)
    /\ UNCHANGED <<decisionVars, ledgerVars, pipelineVars, agentVars,
                   history,
                   appended, data_rows, current_window, predictions>>

\* predict_next_n: the last rows of the data file are loaded.
LoadData ==
    /\ data_rows = <<>>
    /\ TotalAppended = 0
    /\ \E rows \in RowCounts :
          /\ data_rows' = slice_from([i \in 1 .. rows |-> Row(i)], 0 - tail_rows)
          /\ current_window' = data_rows'
    /\ predictions' = <<>>
    /\ UNCHANGED <<decisionVars, ledgerVars, pipelineVars, agentVars,
                   history, appended,
                   predict_call>>

\* predict_next_n: one turn of the loop.
PredictStep ==
    /\ data_rows # <<>>
    /\ Len(predictions) < n_steps
    /\ \E model_output \in ModelOutputs :
          LET call == predict(current_window, model_output)
              made == next_reading(current_window[Len(current_window)],
                                   call.returned)
          IN  /\ predict_call' = call
              /\ predictions' = Append(predictions, call.returned)
              /\ current_window' = Tail(Append(current_window, made))
    /\ UNCHANGED <<decisionVars, ledgerVars, pipelineVars, agentVars,
                   history,
                   appended, data_rows>>

InitWindow ==
    /\ DecisionIdle
    /\ LedgerIdle
    /\ WindowIdle
    /\ PipelineIdle
    /\ AgentsIdle

NextWindow == StoreReading \/ PredictFromStore \/ LoadData \/ PredictStep

SpecWindow == InitWindow /\ [][NextWindow]_vars

---------------------------------------------------------------------------
(* The pipeline around the agents: the caller stores a reading and calls   *)
(* process() with the device's recent readings (tests/test_flow.py), the   *)
(* classifier and the forecast agents run, the decision is taken and the   *)
(* snapshot is put in the cache; the dashboard route reads the store and   *)
(* the cache (api/routes/dashboard_routes.py).                             *)

\* The most readings ingested in one behaviour, over all devices.
MaxIngest == 2

\* A reading that arrives: calm air, or the smoky air of scenario A.
IngestedReading(device_id, k, smoky) ==
    [kind |-> "object",
     fields |-> [device_id |-> device_id, timestamp |-> k,
                 pm25 |-> IF smoky THEN 15 ELSE 10,
                 co2 |-> IF smoky THEN 450 ELSE 400,
                 co |-> IF smoky THEN 250 ELSE 5,
                 voc |-> IF smoky THEN 50 ELSE 30]]

\* The reading as the decision rules take it.
reading_of(r) ==
    Reading(r.fields.pm25, r.fields.co2, r.fields.co, r.fields.voc, <<>>)

AirTypeClassification(air_type, confidence) ==
    [air_type |-> air_type, confidence |-> confidence]

\* Mutant: the cooking pattern is tried before the cigarette pattern.
classifier_mock_response_cooking_first(current) ==
    IF current.pm25 < 35 /\ current.co < 10 /\ current.voc < 100
    THEN AirTypeClassification("clean", 90)
    ELSE IF current.pm25 > 150 /\ current.voc > 250
    THEN AirTypeClassification("cooking", 75)
    ELSE IF current.pm25 > 100 /\ 20 < current.co /\ current.co < 60
            /\ current.voc > 200
    THEN AirTypeClassification("cigarette", 85)
    ELSE IF current.pm25 > 80 /\ current.co > 50 /\ current.co2 > 600
    THEN AirTypeClassification("vehicle", 80)
    ELSE IF current.pm25 < 50 /\ current.voc > 400
    THEN AirTypeClassification("chemical", 70)
    ELSE AirTypeClassification("unknown", 50)

\* AirTypeClassificationAgent._generate_mock_response
classifier_mock_response(current) ==
    IF current.pm25 < 35 /\ current.co < 10 /\ current.voc < 100
    THEN AirTypeClassification("clean", 90)
    ELSE IF current.pm25 > 100 /\ 20 < current.co /\ current.co < 60
            /\ current.voc > 200
    THEN AirTypeClassification("cigarette", 85)
    ELSE IF current.pm25 > 80 /\ current.co > 50 /\ current.co2 > 600
    THEN AirTypeClassification("vehicle", 80)
    ELSE IF current.pm25 > 150 /\ current.voc > 250
    THEN AirTypeClassification("cooking", 75)
    ELSE IF current.pm25 < 50 /\ current.voc > 400
    THEN AirTypeClassification("chemical", 70)
    ELSE AirTypeClassification("unknown", 50)

\* As classifier_parse_response, keeping the label the reply gives.
classifier_parse_response_as_given(reply) ==
    AirTypeClassification(get_or(reply.air_type, "unknown"),
                          get_or(reply.confidence, 0))

\* AirTypeClassificationAgent.parse_response on a reply that parsed.
classifier_parse_response(reply) ==
    LET air_type_str == get_or(reply.air_type, "unknown")
    IN  AirTypeClassification(
            IF air_type_str \in AirTypes THEN air_type_str ELSE "unknown",
            get_or(reply.confidence, 0))

\* What the remote classifier does in a call: it raises, or it replies
\* with text that is JSON or is not.
ClassifierRemotes ==
    {[raises |-> TRUE, parsable |-> FALSE, reply |-> <<>>],
     [raises |-> FALSE, parsable |-> FALSE, reply |-> <<>>],
     [raises |-> FALSE, parsable |-> TRUE,
      reply |-> <<[air_type |-> <<"cooking">>, confidence |-> <<80>>]>>]}

\* BaseAgent.execute of the classifier: the rule path under USE_MOCK_AI,
\* else the remote call and parse_response; an exception of either is
\* logged and raised again.
classifier_execute(mock, current, remote) ==
    IF mock
    THEN [raised |-> FALSE, value |-> <<classifier_mock_response(current)>>]
    ELSE IF remote.raises \/ ~remote.parsable
    THEN [raised |-> TRUE, value |-> <<>>]
    ELSE [raised |-> FALSE,
          value |-> <<classifier_parse_response(remote.reply[1])>>]

\* Mutant: the confidence does not depend on will_peak.
smoke_prediction_execute_flat(recent_readings, current_reading, model_output) ==
    LET readings == IF Len(recent_readings) = 0 THEN <<current_reading>>
                    ELSE recent_readings
        predicted_value == predict(readings, model_output).returned
        last_val == getattr(readings[Len(readings)], "co", 0)
        will_peak == /\ 100 * predicted_value > 105 * last_val
                     /\ predicted_value > 250
        confidence == IF predicted_value > 400 THEN 95 ELSE 60
    IN  SmokePrediction(will_peak, confidence, predicted_value)

\* SmokePredictionAgent.execute
smoke_prediction_execute(recent_readings, current_reading, model_output) ==
    LET readings == IF Len(recent_readings) = 0 THEN <<current_reading>>
                    ELSE recent_readings
        predicted_value == predict(readings, model_output).returned
        last_val == getattr(readings[Len(readings)], "co", 0)
        will_peak == /\ 100 * predicted_value > 105 * last_val
                     /\ predicted_value > 250
        confidence == IF predicted_value > 400 THEN 95
                      ELSE IF will_peak THEN 85 ELSE 60
    IN  SmokePrediction(will_peak, confidence, predicted_value)

\* As substitute_classification, substituting the label clean.
substitute_classification_clean(call) ==
    IF call.raised THEN AirTypeClassification("clean", 0) ELSE call.value[1]

\* The classification the pipeline goes on with: unknown with confidence 0
\* when the classifier call failed.
substitute_classification(call) ==
    IF call.raised THEN AirTypeClassification("unknown", 0)
    ELSE call.value[1]

\* The reply of the control model on the parse path: fan on at 75.
ControlReply ==
    [fan_on |-> <<TRUE>>, fan_intensity |-> <<2 * 75>>,
     reasoning |-> <<"model text">>, override_reason |-> <<>>]

\* DecisionOrchestrator.process(reading, context): the run's snapshot.
orchestrator_process(mock, r, context, remote, model_output) ==
    LET current == reading_of(r)
        pred == smoke_prediction_execute(context, r, model_output)
        call == classifier_execute(mock, current, remote)
        cls == substitute_classification(call)
        agent == IF mock
                 THEN generate_mock_response(current, pred, cls.air_type)
                 ELSE parse_response(ControlReply)
    IN  [reading |-> r,
         prediction |-> pred,
         classification |-> cls,
         decision |-> decide(current, pred, agent)]

\* As cache_put, writing the decision only over an entry that exists.
cache_put_decision_only(cache, device_id, snapshot) ==
    IF Len(cache[device_id]) = 0
    THEN [cache EXCEPT ![device_id] = <<snapshot>>]
    ELSE [cache EXCEPT ![device_id] =
             <<[@[1] EXCEPT !.decision = snapshot.decision]>>]

\* Decision Cache put: the snapshot replaces the device's entry whole.
cache_put(cache, device_id, snapshot) ==
    [cache EXCEPT ![device_id] = <<snapshot>>]

\* sensor_service.get_latest_reading
get_latest_reading(hist, device_id) ==
    IF Len(hist[device_id]) = 0 THEN <<>>
    ELSE <<hist[device_id][Len(hist[device_id])]>>

\* get_latest_decisions
get_latest_decisions(cache, device_id) == cache[device_id]

NoDashboard == [called |-> FALSE]

\* get_dashboard_data; served is the cache entry the handler found.
get_dashboard_data(hist, cache, led, device_id) ==
    LET current_reading == get_latest_reading(hist, device_id)
        cached_decisions == get_latest_decisions(cache, device_id)
    IN  IF Len(current_reading) = 0
        THEN [called |-> TRUE, device_id |-> device_id, status |-> 404,
              detail |-> "No data found", served |-> cached_decisions]
        ELSE IF Len(cached_decisions) = 0
        THEN [called |-> TRUE, device_id |-> device_id, status |-> 404,
              detail |-> "No AI decisions found",
              served |-> cached_decisions]
        ELSE [called |-> TRUE, device_id |-> device_id, status |-> 200,
              current_reading |-> current_reading[1],
              prediction |-> cached_decisions[1].prediction,
              classification |-> cached_decisions[1].classification,
              control_status |->
                  [fan_on |-> cached_decisions[1].decision.fan_on,
                   fan_intensity |->
                       cached_decisions[1].decision.fan_intensity,
                   timestamp |-> current_reading[1].fields.timestamp],
              recent_logs |-> get_logs_by_device(led, device_id, 10),
              served |-> cached_decisions]

\* The caller stores the reading, takes the device's recent readings and
\* calls process(); the call is in flight until it returns.
Ingest ==
    /\ TotalAppended < MaxIngest
    /\ \E device_id \in Devices, smoky \in BOOLEAN :
          LET r == IngestedReading(device_id, TotalAppended + 1, smoky)
          IN  /\ history' = [history EXCEPT
                                ![device_id] = store_append(@, r)]
              /\ appended' = [appended EXCEPT ![device_id] = Append(@, r)]
              /\ in_flight' = in_flight \cup
                     {[device_id |-> device_id, reading |-> r,
                       context |-> history'[device_id]]}
    /\ UNCHANGED <<ledgerVars, data_rows, current_window, predictions,
                   predict_call, latest_decisions, runs, dashboard>>
    /\ UNCHANGED <<decisionVars, agentVars>>

\* A process() call in flight runs to its end: the agents run, the decision
\* is taken, the snapshot is put in the cache and the call returns.
ProcessReturns ==
    /\ \E call \in in_flight, model_output \in ModelOutputs,
          remote \in (IF use_mock_ai THEN {CHOOSE x \in ClassifierRemotes :
                                              x.parsable}
                      ELSE ClassifierRemotes) :
          LET snapshot == orchestrator_process(use_mock_ai, call.reading,
                                               call.context, remote,
                                               model_output)
          IN  /\ latest_decisions' = cache_put(latest_decisions,
                                               call.device_id, snapshot)
              /\ runs' = Append(runs,
                     [device_id |-> call.device_id,
                      reading |-> call.reading,
                      remote |-> remote,
                      classifier_raised |->
                          classifier_execute(use_mock_ai,
                                             reading_of(call.reading),
                                             remote).raised,
                      returned |-> <<snapshot.decision,
                                     snapshot.prediction>>,
                      snapshot |-> snapshot])
              /\ in_flight' = in_flight \ {call}
    /\ UNCHANGED <<ledgerVars, windowVars, dashboard>>
    /\ UNCHANGED <<decisionVars, agentVars>>

\* GET /data/{device_id}
Dashboard ==
    /\ \E device_id \in Devices :
          dashboard' = get_dashboard_data(history, latest_decisions, ledger,
                                          device_id)
    /\ UNCHANGED <<ledgerVars, windowVars, in_flight, latest_decisions,
                   runs>>
    /\ UNCHANGED <<decisionVars, agentVars>>

InitPipeline ==
    /\ use_mock_ai \in BOOLEAN
    /\ reading = ScenarioB[1]
    /\ prediction = ScenarioB[2]
    /\ classification = ScenarioB[3]
    /\ raw_response = <<>>
    /\ agent_decision = NoDecision
    /\ decision = NoDecision
    /\ pc = "ready"
    /\ LedgerIdle
    /\ WindowIdle
    /\ PipelineIdle
    /\ AgentsIdle

NextPipeline == Ingest \/ ProcessReturns \/ Dashboard

SpecPipeline == InitPipeline /\ [][NextPipeline]_vars

---------------------------------------------------------------------------
(* The classifier agent on its own (agents/air_classification_agent.py),   *)
(* followed on the rule path by the control agent for the same reading.    *)

\* Thresholds of the classifier's patterns.
ClassifierPm25 == {35, 50, 80, 100, 150}

ClassifierCo == {10, 20, 50, 60}

ClassifierVoc == {100, 200, 250, 400}

ClassifierCo2 == {600}

\* Each threshold, and the values just below and just above it.
Around(thresholds) ==
    thresholds \cup {t - Eps : t \in thresholds}
               \cup {t + Eps : t \in thresholds}

ClassifierReadings ==
    {Reading(p, c2, c, v, <<>>) :
        p \in Around(ClassifierPm25), c2 \in Around(ClassifierCo2),
        c \in Around(ClassifierCo), v \in Around(ClassifierVoc)}

\* Replies of the remote classifier that are JSON objects: air_type one of
\* the six labels, another string, or missing; confidence given or missing.
ClassifierReplies ==
    [air_type : {<<>>} \cup {<<l>> : l \in AirTypes \cup {"smog", "CLEAN", ""}},
     confidence : {<<>>, <<80>>}]

RemoteCalls ==
    ClassifierRemotes \cup
    {[raises |-> FALSE, parsable |-> TRUE, reply |-> <<reply>>] :
        reply \in ClassifierReplies}

\* The classifier runs on its rule path, then the control agent on its
\* rule path with the classifier's label.  The agents keep no state between
\* calls, so every call is taken from the state in which none was made.
ClassifyByRules ==
    /\ use_mock_ai
    /\ AgentsIdle
    /\ \E current \in ClassifierReadings, pred \in GridForecasts :
          LET call == classifier_execute(TRUE, current, <<>>)
          IN  classifier_call' =
                  [path |-> "rules", current |-> current,
                   prediction |-> pred, raised |-> call.raised,
                   value |-> call.value,
                   control |-> <<generate_mock_response(
                                     current, pred, call.value[1].air_type)>>]
    /\ UNCHANGED <<decisionVars, ledgerVars, windowVars, pipelineVars,
                   forecast_call, feature_call, model_service, model_call>>

\* The classifier asks the remote model and parses its reply.
ClassifyByModel ==
    /\ ~use_mock_ai
    /\ AgentsIdle
    /\ \E remote \in RemoteCalls :
          LET call == classifier_execute(FALSE, ScenarioB[1], remote)
          IN  classifier_call' =
                  [path |-> "model", remote |-> remote,
                   raised |-> call.raised, value |-> call.value]
    /\ UNCHANGED <<decisionVars, ledgerVars, windowVars, pipelineVars,
                   forecast_call, feature_call, model_service, model_call>>

\* co of the last reading: none, around the peak level of 250, around the
\* level of 400 above which the confidence is 0.95.
ForecastCo == {0, 240, 251, 300, 390, 401}

\* What the trained model answers: around 250, around 400, and on either
\* side of 1.05 times each co of ForecastCo.
ForecastOutputs == {250, 251, 252, 253, 315, 316, 400, 401, 410}

\* A SensorReading with the given co.
ObjectReading(k, co) ==
    [kind |-> "object",
     fields |-> [device_id |-> "esp32_001", timestamp |-> k, pm25 |-> 15,
                 co2 |-> 450, co |-> co, voc |-> 50]]

\* n readings of a device, the last with the given co.
ReadingsEndingIn(n, co) ==
    [i \in 1 .. n |-> ObjectReading(i, IF i = n THEN co ELSE 10)]

\* The prediction agent is called with the recent readings of a device
\* (none yet, fewer than the window, a window, more) and the current one.
PredictSmoke ==
    /\ AgentsIdle
    /\ \E n \in 0 .. window_size + 1, co \in ForecastCo,
          model_output \in ForecastOutputs :
          LET recent_readings == ReadingsEndingIn(n, co)
              current_reading == ObjectReading(n + 1, co)
          IN  forecast_call' =
                  [made |-> TRUE, recent_readings |-> recent_readings,
                   current_reading |-> current_reading,
                   model_output |-> model_output,
                   forecast |-> smoke_prediction_execute(
                                    recent_readings, current_reading,
                                    model_output)]
    /\ UNCHANGED <<decisionVars, ledgerVars, windowVars, pipelineVars,
                   classifier_call, feature_call, model_service,
                   model_call>>

\* The longest window given to the extractors.
MaxWindowLen == 4

\* Rows of the data file, in any order and with repeats.
WindowRows == {Row(i) : i \in 0 .. 3}

Windows ==
    UNION {[1 .. n -> WindowRows] : n \in 1 .. MaxWindowLen}

\* Both extractors are given the same non-empty window.
ExtractFeatures ==
    /\ AgentsIdle
    /\ \E window \in Windows :
          feature_call' = [made |-> TRUE, window |-> window,
                           serving |-> extract_features(window),
                           training |-> training_extract_features(window)]
    /\ UNCHANGED <<decisionVars, ledgerVars, windowVars, pipelineVars,
                   classifier_call, forecast_call, model_service,
                   model_call>>

\* The file at model_path: missing, or a model trained on vectors of so
\* many features.
Artifacts ==
    {[present |-> FALSE, n_features_in |-> 0]}
    \cup {[present |-> TRUE, n_features_in |-> n] :
             n \in {Len(FeatureColumns) * 5 - 1, Len(FeatureColumns) * 5,
                    Len(FeatureColumns) * 5 + 1}}

\* SmokeModelService.__init__ with _load_model: a missing file raises
\* FileNotFoundError; any file that is there is loaded as it is.
load_model(artifact) ==
    IF ~artifact.present
    THEN [state |-> "failed", error |-> "FileNotFoundError"]
    ELSE [state |-> "ready", n_features_in |-> artifact.n_features_in]

\* self.model.predict([features]): a model given a vector of another length
\* than it was trained on raises or answers, as the estimator in the file
\* does; a model given a vector of its own length answers.
ModelAnswers(n_features_in, features) ==
    IF Len(features) = n_features_in THEN {"answers"}
    ELSE {"raises", "answers"}

\* co of the last reading given to predict.
ServiceCo == {10, 240, 300}

\* The service is constructed when the prediction agent is.
LoadModel ==
    /\ model_service.state = "not constructed"
    /\ \E artifact \in Artifacts : model_service' = load_model(artifact)
    /\ UNCHANGED <<decisionVars, ledgerVars, windowVars, pipelineVars,
                   classifier_call, forecast_call, feature_call, model_call>>

\* predict on a constructed service.
ServicePredict ==
    /\ model_service.state = "ready"
    /\ \E n \in 0 .. window_size + 1, co \in ServiceCo,
          model_output \in ModelOutputs :
          LET readings == ReadingsEndingIn(n, co)
              call == predict(readings, model_output)
              features == IF call.features_extracted
                          THEN extract_features(call.window) ELSE <<>>
          IN  \E answer \in IF call.model_invoked
                             THEN ModelAnswers(model_service.n_features_in,
                                               features)
                             ELSE {"not asked"} :
                 model_call' =
                     [made |-> TRUE, given |-> Len(readings), last_co |-> co,
                      features |-> Len(features),
                      model_invoked |-> call.model_invoked,
                      raised |-> answer = "raises",
                      returned |-> IF answer = "raises" THEN <<>>
                                   ELSE <<call.returned>>]
    /\ UNCHANGED <<decisionVars, ledgerVars, windowVars, pipelineVars,
                   classifier_call, forecast_call, feature_call,
                   model_service>>

InitStartup ==
    /\ DecisionIdle
    /\ LedgerIdle
    /\ WindowIdle
    /\ PipelineIdle
    /\ AgentsIdle

NextStartup == LoadModel \/ ServicePredict

SpecStartup == InitStartup /\ [][NextStartup]_vars

InitAgents ==
    /\ use_mock_ai \in BOOLEAN
    /\ reading = ScenarioB[1]
    /\ prediction = ScenarioB[2]
    /\ classification = ScenarioB[3]
    /\ raw_response = <<>>
    /\ agent_decision = NoDecision
    /\ decision = NoDecision
    /\ pc = "ready"
    /\ LedgerIdle
    /\ WindowIdle
    /\ PipelineIdle
    /\ AgentsIdle

NextAgents ==
    ClassifyByRules \/ ClassifyByModel \/ PredictSmoke \/ ExtractFeatures

SpecAgents == InitAgents /\ [][NextAgents]_vars

---------------------------------------------------------------------------
(* Vocabulary of the properties, written out from the readings themselves *)

Decided == pc = "decided"

\* process() ran on the rule path.
RuleRun == Decided /\ use_mock_ai

Levels == {0, 25, 50, 75, 100}

CoCritical == reading.co > 200

GasCritical == Len(reading.mq2_raw) > 0 /\ reading.mq2_raw[1] > 400

PeakLikely == prediction.will_peak /\ prediction.confidence > 80

AnySafetyRule == CoCritical \/ GasCritical \/ PeakLikely \/ reading.pm25 > 75

ComfortOn == reading.pm25 > 35 \/ reading.co > 50 \/ reading.voc > 200

PeakBoost == prediction.will_peak /\ prediction.confidence > 60

\* severity > n/10 and severity >= n/10, severity = max(pm25/150, co/100, voc/500)
SevAbove(n) ==
    \/ 10 * reading.pm25 > 150 * n
    \/ 10 * reading.co > 100 * n
    \/ 10 * reading.voc > 500 * n

SevAtLeast(n) ==
    \/ 10 * reading.pm25 >= 150 * n
    \/ 10 * reading.co >= 100 * n
    \/ 10 * reading.voc >= 500 * n

\* A step that re-runs the rule path on the same forecast.
RuleRerun ==
    /\ RuleRun
    /\ pc' = "decided"
    /\ prediction' = prediction

---------------------------------------------------------------------------
(* Properties *)

\* C1: every decision for a reading with co > 200 has the fan on at
\* intensity 100, whatever the forecast and the classification label.
C1_CoCriticalFullFan ==
    (Decided /\ CoCritical) =>
        (decision.fan_on /\ decision.fan_intensity = 100)

\* C1 witness: co > 200 under label cooking, where the agent alone returns 75
\* and the decision is 100.
C1_Witness ==
    /\ RuleRun /\ CoCritical
    /\ classification = "cooking"
    /\ agent_decision.fan_intensity = 75
    /\ decision.fan_on /\ decision.fan_intensity = 100

\* C2: a forecast that peaks with confidence above 0.8 gives the fan on at
\* intensity 100 for any reading, also one below every comfort threshold.
C2_PreemptiveFullFan ==
    (Decided /\ PeakLikely) =>
        (decision.fan_on /\ decision.fan_intensity = 100)

\* C2 witness: Scenario D, a reading below every comfort threshold (the agent
\* leaves the fan off) with a peaking forecast of confidence 0.85.
C2_Witness ==
    /\ RuleRun
    /\ <<reading, prediction, classification>> = ScenarioD
    /\ ~ComfortOn /\ ~agent_decision.fan_on
    /\ decision.fan_on /\ decision.fan_intensity = 100

\* C3: pm25 > 150 gives intensity 100 and 75 < pm25 <= 150 gives intensity
\* at least 75, for every forecast and label.
C3_ParticulateThresholds ==
    Decided =>
        /\ reading.pm25 > 150 => decision.fan_intensity = 100
        /\ (reading.pm25 > 75 /\ reading.pm25 <= 150) =>
               decision.fan_intensity >= 75

\* C3 witness: 75 < pm25 <= 150 where the agent alone returns 50 and the
\* decision is 75.
C3_Witness ==
    /\ RuleRun
    /\ reading.pm25 > 75 /\ reading.pm25 <= 150
    /\ agent_decision.fan_intensity = 50
    /\ decision.fan_intensity = 75

\* C4: every decision the agent returns, on the rule path and on the parse
\* path, and every decision process() returns, has its intensity in
\* {0, 25, 50, 75, 100}.
C4_IntensityIsALevel ==
    Decided =>
        /\ agent_decision.fan_intensity \in Levels
        /\ decision.fan_intensity \in Levels

\* C4 witness: the parse path on a reply whose fan_intensity is above 100
\* (130, in halves 260), returned as 100.
C4_Witness ==
    /\ Decided /\ ~use_mock_ai
    /\ Len(raw_response) = 1
    /\ raw_response[1].fan_intensity = <<260>>
    /\ agent_decision.fan_intensity = 100

\* C5: on the rule path the decision has fan_on with override_reason
\* "Safety Protocol Activated" exactly when a safety rule fired (co > 200,
\* raw gas reading > 400, peaking forecast with confidence > 0.8, pm25 > 75);
\* the reading of Scenario A gives fan_on, intensity 100 and that reason.
C5_OverrideIffSafetyRule ==
    RuleRun =>
        /\ (decision.fan_on /\ decision.override_reason = SafetyOverride)
               <=> AnySafetyRule
        /\ reading = ScenarioA[1] =>
               /\ decision.fan_on
               /\ decision.fan_intensity = 100
               /\ decision.override_reason = SafetyOverride

\* C5 witness: Scenario A decided.
C5_Witness ==
    /\ RuleRun
    /\ <<reading, prediction, classification>> = ScenarioA
    /\ decision.override_reason = SafetyOverride
    /\ decision.fan_intensity = 100

\* C6: when the label of a reading changes from unknown to chemical,
\* cigarette, vehicle or cooking, reading and forecast staying the same, the
\* intensity decided is not lower than it was under unknown.
C6_LabelNeverLowers ==
    [][(/\ RuleRerun
        /\ reading' = reading
        /\ classification = "unknown"
        /\ classification' \in {"chemical", "cigarette", "vehicle", "cooking"})
       => decision'.fan_intensity >= decision.fan_intensity]_vars

\* C7: when one of pm25, co, voc rises and the other channels, the forecast
\* and the label stay, the intensity does not drop and a fan that was on
\* stays on.
C7_RaisingNeverLowers ==
    [][(/\ RuleRerun
        /\ classification' = classification
        /\ reading' # reading
        /\ reading'.pm25 >= reading.pm25
        /\ reading'.co >= reading.co
        /\ reading'.voc >= reading.voc)
       => /\ decision'.fan_intensity >= decision.fan_intensity
          /\ decision.fan_on => decision'.fan_on]_vars

\* C8: on the rule path with no safety rule fired, the fan is on exactly
\* when pm25 > 35 or co > 50 or voc > 200; when none holds the decision is
\* fan off, intensity 0, no override reason, whatever forecast and label.
C8_ComfortThresholds ==
    (RuleRun /\ ~AnySafetyRule) =>
        /\ decision.fan_on <=> ComfortOn
        /\ ~ComfortOn =>
               /\ decision.fan_on = FALSE
               /\ decision.fan_intensity = 0
               /\ decision.override_reason = NoReason

\* C8 witness: a reading below every threshold under label chemical with a
\* forecast that peaks at a confidence in (0.6, 0.8]: the fan stays off.
C8_Witness ==
    /\ RuleRun /\ ~AnySafetyRule /\ ~ComfortOn
    /\ classification = "chemical"
    /\ PeakBoost
    /\ ~decision.fan_on /\ decision.fan_intensity = 0

\* The label's intensity with the 100 and 75 steps taken when P8 and P6 hold.
LabelIntensity(d, P8, P6) ==
    /\ classification = "chemical" => d.fan_intensity = 100
    /\ classification \in {"cigarette", "vehicle"} =>
           d.fan_intensity = (IF P8 THEN 100 ELSE 75)
    /\ classification = "cooking" =>
           d.fan_intensity = (IF P6 THEN 75 ELSE 50)

\* C9 as claimed: in the comfort tier with the fan on and no peak boost,
\* chemical gives 100, cigarette or vehicle 75 and 100 only for severity
\* above 0.8, cooking 50 and 75 only for severity above 0.6.
C9_Original ==
    (RuleRun /\ ~AnySafetyRule /\ ComfortOn /\ ~PeakBoost) =>
        LabelIntensity(decision, SevAbove(8), SevAbove(6))

\* C9 amended: as claimed, with the steps taken at severity 0.8 and 0.6
\* themselves and above: cigarette or vehicle gives 100 for severity >= 0.8,
\* cooking 75 for severity >= 0.6.  The agent returns this for every reading
\* that switches the fan on, and it is the decision in the comfort tier;
\* Scenario C gives fan on at 75.
C9_LabelIntensity ==
    (RuleRun /\ ComfortOn /\ ~PeakBoost) =>
        /\ agent_decision.fan_on
        /\ LabelIntensity(agent_decision, SevAtLeast(8), SevAtLeast(6))
        /\ ~AnySafetyRule =>
               LabelIntensity(decision, SevAtLeast(8), SevAtLeast(6))
        /\ <<reading, prediction, classification>> = ScenarioC =>
               (decision.fan_on /\ decision.fan_intensity = 75)

\* C9 witness: the comfort tier at severity exactly 0.8 (co = 80) under
\* label cigarette, decided at 100.
C9_Witness ==
    /\ RuleRun /\ ~AnySafetyRule /\ ComfortOn /\ ~PeakBoost
    /\ classification = "cigarette"
    /\ SevAtLeast(8) /\ ~SevAbove(8)
    /\ decision.fan_intensity = 100

\* C10: with the fan on, a label of clean or unknown and no peak boost, the
\* intensity is 100 for severity > 0.8, 75 for 0.6 < severity <= 0.8, 50 for
\* 0.4 < severity <= 0.6 and 25 otherwise: the agent returns this for every
\* reading that switches the fan on, and it is the decision in the comfort
\* tier.
C10_GeneralIntensity ==
    LET level == IF SevAbove(8) THEN 100
                 ELSE IF SevAbove(6) THEN 75
                 ELSE IF SevAbove(4) THEN 50
                 ELSE 25
    IN  (RuleRun /\ ComfortOn /\ ~PeakBoost
            /\ classification \in {"clean", "unknown"}) =>
            /\ agent_decision.fan_on
            /\ agent_decision.fan_intensity = level
            /\ ~AnySafetyRule => decision.fan_intensity = level

\* C10 witness: the comfort tier, label unknown, severity in (0.4, 0.6],
\* decided at 50.
C10_Witness ==
    /\ RuleRun /\ ~AnySafetyRule /\ ComfortOn /\ ~PeakBoost
    /\ classification = "unknown"
    /\ SevAbove(4) /\ ~SevAbove(6)
    /\ decision.fan_on /\ decision.fan_intensity = 50

\* The intensity the label and the severity give before any boost.
Unboosted ==
    IF classification = "chemical" THEN 100
    ELSE IF classification \in {"cigarette", "vehicle"}
         THEN (IF SevAtLeast(8) THEN 100 ELSE 75)
    ELSE IF classification = "cooking"
         THEN (IF SevAtLeast(6) THEN 75 ELSE 50)
    ELSE IF SevAbove(8) THEN 100
    ELSE IF SevAbove(6) THEN 75
    ELSE IF SevAbove(4) THEN 50
    ELSE 25

\* C11: with the fan on, the intensity is min(100, unboosted + 25) when the
\* forecast peaks with confidence > 0.6 and the unboosted intensity
\* otherwise (confidence exactly 0.6, or no peak, gives no boost); with the
\* fan off the intensity is 0 whatever the forecast.  The agent returns this
\* for every reading, and it is the decision in the comfort tier.
C11_PeakBoost ==
    LET boosted == IF Unboosted + 25 > 100 THEN 100 ELSE Unboosted + 25
        final == IF ~ComfortOn THEN 0
                 ELSE IF prediction.will_peak /\ prediction.confidence > 60
                      THEN boosted
                 ELSE Unboosted
    IN  RuleRun =>
            /\ agent_decision.fan_intensity = final
            /\ ~AnySafetyRule => decision.fan_intensity = final

\* C11 witness: the comfort tier with an unboosted intensity of 50 and a
\* forecast that peaks with a confidence in (0.6, 0.8], decided at 75.
C11_Witness ==
    /\ RuleRun /\ ~AnySafetyRule /\ ComfortOn
    /\ Unboosted = 50
    /\ prediction.will_peak /\ prediction.confidence > 60
    /\ decision.fan_intensity = 75

\* C13: parse_response returns the level at the least absolute distance
\* from the reply's fan_intensity, the lower of two levels at the same
\* distance (so 0 below 0 and 100 above 100); a reply without fan_intensity
\* gives intensity 0 and one without fan_on gives fan_on = false.
C13_NearestLevel ==
    (Decided /\ ~use_mock_ai) =>
        LET data == raw_response[1]
            got == agent_decision.fan_intensity
            raw2 == IF Len(data.fan_intensity) = 0 THEN 0
                    ELSE data.fan_intensity[1]
            Far(l) == IF 2 * l >= raw2 THEN 2 * l - raw2 ELSE raw2 - 2 * l
        IN  /\ got \in Levels
            /\ \A l \in Levels :
                   Far(got) < Far(l) \/ (Far(got) = Far(l) /\ got <= l)
            /\ raw2 < 0 => got = 0
            /\ raw2 > 200 => got = 100
            /\ Len(data.fan_intensity) = 0 => got = 0
            /\ Len(data.fan_on) = 0 => agent_decision.fan_on = FALSE

\* C13 witness: a reply with fan_intensity 37.5, midway between 25 and 50,
\* returned as 25.
C13_Witness ==
    /\ Decided /\ ~use_mock_ai
    /\ raw_response[1].fan_intensity = <<75>>
    /\ agent_decision.fan_intensity = 25

\* A logging call returned last.
Logged == last_call.op \in {"log_decision", "log_fault"}

\* The SHA-256 content hash of an entry, written out from its fields.
ContentHash(e) ==
    [kind |-> "sha256",
     of |-> <<e.event_type, e.timestamp, e.device_id, e.data>>]

\* C18: a log_decision or log_fault call whose external write raises still
\* returns its entry to the caller, the entry's hash is the content hash
\* computed locally, and the entry is the last of the local ledger; in
\* every mode the entry a logging call returns is the last of the ledger.
C18_WriteFailureKept ==
    Logged =>
        /\ Len(last_call.returned) = 1
        /\ Len(ledger) >= 1
        /\ ledger[Len(ledger)] = last_call.returned[1]
        /\ last_call.outcome = "raises" =>
               last_call.returned[1].hash = ContentHash(last_call.returned[1])

\* C18 witness: a log_fault whose write raised, after a logged decision
\* whose write returned a transaction hash.
C18_Witness ==
    /\ last_call.op = "log_fault"
    /\ last_call.outcome = "raises"
    /\ Len(ledger) = 2
    /\ ledger[1].event_type = "decision"
    /\ ledger[1].hash.kind = "tx"
    /\ ledger[2].hash.kind = "sha256"

\* C19: right after log_decision with a forecast supplied,
\* get_recent_logs(1) is exactly the entry the call returned: event_type
\* "decision", the given device_id, the decision's fan_on, fan_intensity,
\* reasoning and override_reason, the forecast's value and confidence under
\* predicted_smoke_peak and prediction_confidence; an entry from log_fault
\* has event_type "fault".
C19_LoggedDecisionIsLast ==
    /\ (last_call.op = "log_decision" /\ Len(last_call.prediction) > 0) =>
          LET logs == get_recent_logs(ledger, 1)
              d == last_call.decision
              p == last_call.prediction[1]
          IN  /\ Len(logs) = 1
              /\ logs[1] = last_call.returned[1]
              /\ logs[1].event_type = "decision"
              /\ logs[1].device_id = last_call.device_id
              /\ logs[1].data.fan_on = d.fan_on
              /\ logs[1].data.fan_intensity = d.fan_intensity
              /\ logs[1].data.reasoning = d.reasoning
              /\ logs[1].data.override_reason = d.override_reason
              /\ logs[1].data.predicted_smoke_peak =
                     <<p.estimated_peak_value>>
              /\ logs[1].data.prediction_confidence = <<p.confidence>>
    /\ last_call.op = "log_fault" =>
          last_call.returned[1].event_type = "fault"

\* C19 witness: a decision with the fan on and its forecast logged for one
\* device after a fault logged for the other, so that get_recent_logs(1)
\* takes the last of two entries.
C19_Witness ==
    /\ last_call.op = "log_decision"
    /\ Len(last_call.prediction) > 0
    /\ last_call.decision.fan_on
    /\ Len(ledger) = 2
    /\ ledger[1].event_type = "fault"
    /\ ledger[1].device_id # last_call.device_id
    /\ get_recent_logs(ledger, 1) = <<ledger[2]>>

\* The primary channel of a reading: mq2_raw of a dict row, co of an object.
PrimaryChannel(r) ==
    IF r.kind = "dict" THEN r.fields.mq2_raw ELSE r.fields.co

\* C14: each device's window holds at most W = 10 readings, all of that
\* device; once more than W were appended it holds exactly the last W of
\* them, oldest first, and before that all of them; when predict asks the
\* model, the window it extracts features from is the last W readings of
\* the list it was given, in the order given.
C14_WindowKeepsLastW ==
    /\ \A d \in Devices :
          /\ Len(history[d]) <= 10
          /\ \A i \in 1 .. Len(history[d]) :
                 history[d][i].fields.device_id = d
          /\ Len(appended[d]) <= 10 => history[d] = appended[d]
          /\ Len(appended[d]) > 10 =>
                 /\ Len(history[d]) = 10
                 /\ \A i \in 1 .. 10 :
                        history[d][i] = appended[d][Len(appended[d]) - 10 + i]
    /\ predict_call.model_invoked =>
          /\ Len(predict_call.window) = 10
          /\ \A i \in 1 .. 10 :
                 LET r == predict_call.given[Len(predict_call.given) - 10 + i]
                 IN  /\ predict_call.window[i].fields.mq2_raw =
                            PrimaryChannel(r)
                     /\ predict_call.window[i].fields.pm25 = r.fields.pm25

\* C14 witness: eleven readings stored for one device and one for the
\* other, and predict asked the model on the first device's window.
C14_Witness ==
    \E d \in Devices, e \in Devices :
        /\ d # e
        /\ Len(appended[d]) = 11
        /\ Len(appended[e]) = 1
        /\ history[d][1] = appended[d][2]
        /\ predict_call.model_invoked
        /\ predict_call.given = history[d]

\* C15: predict on fewer than W = 10 readings extracts no features, does
\* not ask the model, and returns the primary channel value of the last
\* reading (for a dict row its mq2_raw or its co, for an object its co);
\* on no readings it returns 0.
C15_DegradedCarryForward ==
    (predict_call.called /\ Len(predict_call.given) < 10) =>
        /\ ~predict_call.model_invoked
        /\ ~predict_call.features_extracted
        /\ Len(predict_call.given) = 0 => predict_call.returned = 0
        /\ Len(predict_call.given) > 0 =>
               LET last == predict_call.given[Len(predict_call.given)]
               IN  IF last.kind = "dict"
                   THEN \/ predict_call.returned = last.fields.mq2_raw
                        \/ 2 * predict_call.returned = last.fields.co
                   ELSE predict_call.returned = last.fields.co

\* The last process() call that returned for a device, <<>> if none did.
LastRun(d) ==
    LET of_d == SelectSeq(runs, LAMBDA run : run.device_id = d)
    IN  IF Len(of_d) = 0 THEN <<>> ELSE <<of_d[Len(of_d)]>>

C17_DashboardSameRun ==
    dashboard.called =>
        /\ Len(dashboard.served) = 0 => dashboard.status = 404
        /\ dashboard.status = 200 =>
               /\ Len(dashboard.served) = 1
               /\ dashboard.control_status.fan_on =
                      dashboard.served[1].decision.fan_on
               /\ dashboard.control_status.fan_intensity =
                      dashboard.served[1].decision.fan_intensity
               /\ dashboard.control_status.timestamp =
                      dashboard.served[1].reading.fields.timestamp
               /\ dashboard.current_reading = dashboard.served[1].reading

\* C20: a process() call whose classifier call failed, by the remote call
\* raising or by a reply that is not JSON, returned a decision with a level
\* as its intensity for its reading, and went on with classification
\* unknown at confidence 0.
C20_ClassifierFailureSubstituted ==
    \A i \in 1 .. Len(runs) :
        (runs[i].remote.raises \/ ~runs[i].remote.parsable) /\ ~use_mock_ai =>
            /\ runs[i].classifier_raised
            /\ runs[i].snapshot.classification.air_type = "unknown"
            /\ runs[i].snapshot.classification.confidence = 0
            /\ runs[i].snapshot.reading = runs[i].reading
            /\ Len(runs[i].returned) = 2
            /\ runs[i].returned[1] = runs[i].snapshot.decision
            /\ runs[i].returned[1].fan_intensity \in Levels
            /\ runs[i].returned[1].fan_on

\* C20 witness: one call whose remote classifier raised and one whose
\* classifier replied with text that is not JSON; both returned a decision.
C20_Witness ==
    /\ ~use_mock_ai
    /\ Len(runs) = 2
    /\ runs[1].remote.raises
    /\ ~runs[2].remote.raises /\ ~runs[2].remote.parsable
    /\ runs[1].snapshot.classification.air_type = "unknown"
    /\ runs[2].snapshot.classification.air_type = "unknown"
    /\ runs[2].returned[1].fan_intensity = 75

\* C21: parsing a classifier reply whose air_type is missing or is not one
\* of the six labels does not fail and gives the label unknown; a label
\* that is one of the six is kept; a missing confidence becomes 0.
C21_InvalidLabelIsUnknown ==
    (classifier_call.path = "model" /\ classifier_call.remote.parsable) =>
        LET reply == classifier_call.remote.reply[1]
        IN  /\ ~classifier_call.raised
            /\ Len(classifier_call.value) = 1
            /\ classifier_call.value[1].air_type \in
                   {"cigarette", "vehicle", "cooking", "chemical", "clean",
                    "unknown"}
            /\ (\/ Len(reply.air_type) = 0
                \/ reply.air_type[1] \notin
                       {"cigarette", "vehicle", "cooking", "chemical",
                        "clean", "unknown"}) =>
                   classifier_call.value[1].air_type = "unknown"
            /\ (/\ Len(reply.air_type) = 1
                /\ reply.air_type[1] \in
                       {"cigarette", "vehicle", "cooking", "chemical",
                        "clean", "unknown"}) =>
                   classifier_call.value[1].air_type = reply.air_type[1]
            /\ Len(reply.confidence) = 0 =>
                   classifier_call.value[1].confidence = 0
            /\ Len(reply.confidence) = 1 =>
                   classifier_call.value[1].confidence = reply.confidence[1]

\* C21 witness: a reply with a label that is none of the six and with no
\* confidence, parsed to unknown with confidence 0.
C21_Witness ==
    /\ classifier_call.path = "model"
    /\ classifier_call.remote.parsable
    /\ classifier_call.remote.reply[1].air_type = <<"smog">>
    /\ classifier_call.remote.reply[1].confidence = <<>>
    /\ ~classifier_call.raised
    /\ classifier_call.value[1] = [air_type |-> "unknown", confidence |-> 0]

\* The patterns of the rule-based classifier, as conditions on a reading.
MatchesClean(r) == r.pm25 < 35 /\ r.co < 10 /\ r.voc < 100

MatchesCigarette(r) == r.pm25 > 100 /\ r.co > 20 /\ r.co < 60 /\ r.voc > 200

MatchesVehicle(r) == r.pm25 > 80 /\ r.co > 50 /\ r.co2 > 600

MatchesCooking(r) == r.pm25 > 150 /\ r.voc > 250

MatchesChemical(r) == r.pm25 < 50 /\ r.voc > 400

RuleCall == classifier_call.path = "rules"

RuleLabel == classifier_call.value[1].air_type

\* C26: the rule-based classifier returns a label for every reading, and
\* the label is that of the first pattern the reading matches in the order
\* clean, cigarette, vehicle, cooking, chemical, and unknown when it
\* matches none.
C26_FirstMatchingPattern ==
    RuleCall =>
        LET r == classifier_call.current
        IN  /\ ~classifier_call.raised
            /\ Len(classifier_call.value) = 1
            /\ RuleLabel = "clean" <=> MatchesClean(r)
            /\ RuleLabel = "cigarette" <=>
                   (~MatchesClean(r) /\ MatchesCigarette(r))
            /\ RuleLabel = "vehicle" <=>
                   (/\ ~MatchesClean(r) /\ ~MatchesCigarette(r)
                    /\ MatchesVehicle(r))
            /\ RuleLabel = "cooking" <=>
                   (/\ ~MatchesClean(r) /\ ~MatchesCigarette(r)
                    /\ ~MatchesVehicle(r) /\ MatchesCooking(r))
            /\ RuleLabel = "chemical" <=>
                   (/\ ~MatchesClean(r) /\ ~MatchesCigarette(r)
                    /\ ~MatchesVehicle(r) /\ ~MatchesCooking(r)
                    /\ MatchesChemical(r))
            /\ RuleLabel = "unknown" <=>
                   (/\ ~MatchesClean(r) /\ ~MatchesCigarette(r)
                    /\ ~MatchesVehicle(r) /\ ~MatchesCooking(r)
                    /\ ~MatchesChemical(r))

\* C26 witness: a reading that matches the cigarette, the vehicle and the
\* cooking pattern is labelled cigarette.
C26_Witness ==
    /\ RuleCall
    /\ MatchesCigarette(classifier_call.current)
    /\ MatchesVehicle(classifier_call.current)
    /\ MatchesCooking(classifier_call.current)
    /\ RuleLabel = "cigarette"

\* C29: when the rule-based classifier labels a reading clean, the control
\* agent's rule decision for that reading is fan off at intensity 0; when
\* it labels it chemical, the decision is fan on at intensity 100; both
\* whatever the forecast.
C29_CleanOffChemicalFull ==
    RuleCall =>
        /\ RuleLabel = "clean" =>
               (/\ ~classifier_call.control[1].fan_on
                /\ classifier_call.control[1].fan_intensity = 0)
        /\ RuleLabel = "chemical" =>
               (/\ classifier_call.control[1].fan_on
                /\ classifier_call.control[1].fan_intensity = 100)

\* C29 witness: a reading labelled chemical, with a forecast that does not
\* peak, decided as fan on at 100.
C29_Witness ==
    /\ RuleCall
    /\ RuleLabel = "chemical"
    /\ ~classifier_call.prediction.will_peak
    /\ classifier_call.control[1].fan_on
    /\ classifier_call.control[1].fan_intensity = 100

\* The readings the prediction agent hands to the predictor in its call.
ForecastReadings ==
    IF Len(forecast_call.recent_readings) = 0
    THEN <<forecast_call.current_reading>>
    ELSE forecast_call.recent_readings

LastCo == ForecastReadings[Len(ForecastReadings)].fields.co

\* C27: every forecast of the prediction agent has confidence 0.60, 0.85 or
\* 0.95, and a forecast with will_peak has confidence at least 0.85, so it
\* passes the pre-emptive condition (> 0.8) and the boost condition (> 0.6).
C27_ForecastConfidence ==
    forecast_call.made =>
        /\ forecast_call.forecast.confidence \in {60, 85, 95}
        /\ forecast_call.forecast.will_peak =>
               (/\ forecast_call.forecast.confidence >= 85
                /\ forecast_call.forecast.confidence > 80
                /\ forecast_call.forecast.confidence > 60)

\* C27 witness: a forecast with will_peak and an estimate of at most 400,
\* whose confidence is 0.85.
C27_Witness ==
    /\ forecast_call.made
    /\ forecast_call.forecast.will_peak
    /\ forecast_call.forecast.estimated_peak_value <= 400
    /\ forecast_call.forecast.confidence = 85

\* C28: with fewer than W object readings whose last co is not negative,
\* the forecast carries the last co forward and has will_peak false, so
\* neither the pre-emptive condition nor the peak boost holds for it.
C28_DegradedNeverPeaks ==
    (/\ forecast_call.made
     /\ Len(ForecastReadings) < 10
     /\ \A i \in 1 .. Len(ForecastReadings) :
            ForecastReadings[i].kind = "object"
     /\ LastCo >= 0) =>
        /\ forecast_call.forecast.estimated_peak_value = LastCo
        /\ ~forecast_call.forecast.will_peak
        /\ ~preemptive_peak(forecast_call.forecast)
        /\ \A intensity \in {25, 50, 75} :
               ~boost_applies(forecast_call.forecast, intensity)

\* C28 witness: nine readings, the last with co above 400: the forecast
\* has confidence 0.95 and does not peak.
C28_Witness ==
    /\ forecast_call.made
    /\ Len(forecast_call.recent_readings) = 9
    /\ LastCo > 400
    /\ forecast_call.forecast.confidence = 95
    /\ ~forecast_call.forecast.will_peak

\* C24: every log_decision and log_fault call, whatever the mode and the
\* outcome of the external write, makes the ledger one entry longer by
\* putting its entry at the end; in every step the entries already in the
\* ledger keep their position and content.
C24_LedgerAppendOnly ==
    [][/\ Len(ledger') >= Len(ledger)
       /\ SubSeq(ledger', 1, Len(ledger)) = ledger
       /\ (ledger' # ledger \/ last_call'.op \in {"log_decision", "log_fault"}) =>
              (/\ last_call'.op \in {"log_decision", "log_fault"}
               /\ Len(ledger') = Len(ledger) + 1
               /\ ledger'[Len(ledger')] = last_call'.returned[1])]_vars

\* C24 witness: three entries logged in turn by a logger that writes
\* externally: a decision whose write succeeded, a decision whose write
\* raised, and a fault.
C24_Witness ==
    /\ last_call.op = "log_fault"
    /\ Len(ledger) = 3
    /\ ledger[1].timestamp = 1 /\ ledger[2].timestamp = 2
    /\ ledger[3].timestamp = 3
    /\ ledger[1].event_type = "decision" /\ ledger[1].hash.kind = "tx"
    /\ ledger[2].event_type = "decision" /\ ledger[2].hash.kind = "sha256"
    /\ ledger[3] = last_call.returned[1]

\* The last Min(limit, Len(logs)) entries of logs, in their order.
LastEntries(logs, limit) ==
    SubSeq(logs, Len(logs) - Min2(limit, Len(logs)) + 1, Len(logs))

EntriesOf(device_id) ==
    SelectSeq(ledger, LAMBDA log : log.device_id = device_id)

\* C25: get_recent_logs(limit) with limit >= 0 returns at most limit
\* entries, the last Min(limit, length) of the ledger in append order;
\* get_logs_by_device(device_id, limit) returns the same of the entries of
\* that device, and no entry of another device.
C25_RecentLogsAtMostLimit ==
    /\ (last_call.op = "get_recent_logs" /\ last_call.limit >= 0) =>
           /\ Len(last_call.returned) <= last_call.limit
           /\ last_call.returned = LastEntries(ledger, last_call.limit)
    /\ (last_call.op = "get_logs_by_device" /\ last_call.limit >= 0) =>
           /\ Len(last_call.returned) <= last_call.limit
           /\ last_call.returned =
                  LastEntries(EntriesOf(last_call.device_id), last_call.limit)
           /\ \A i \in 1 .. Len(last_call.returned) :
                  last_call.returned[i].device_id = last_call.device_id

\* C30: every decision the control agent returns, on the rule path and on
\* the parse path, has fan_on exactly when fan_intensity > 0: a running fan
\* has intensity at least 25 and a stopped fan has intensity 0.
C30_FanOnIffIntensity ==
    pc = "decided" =>
        /\ agent_decision.fan_on <=> agent_decision.fan_intensity > 0
        /\ agent_decision.fan_on => agent_decision.fan_intensity >= 25
        /\ ~agent_decision.fan_on => agent_decision.fan_intensity = 0

\* The values of channel number k (1 .. 6, in the order mq2_raw, pm25, co,
\* voc, temperature, humidity) over the window given to the extractors.
ChannelValues(k) ==
    LET name == <<"mq2_raw", "pm25", "co", "voc", "temperature",
                  "humidity">>[k]
    IN  [i \in 1 .. Len(feature_call.window) |->
            feature_call.window[i].fields[name]]

\* f is the fraction with value v.
IsWhole(f, v) == f.den # 0 /\ f.num = v * f.den

\* s is the slope of the least-squares line through x over 0 .. n - 1: the
\* residuals of the line with slope s through the mean point are orthogonal
\* to the centred positions.
IsLeastSquaresSlope(s, x) ==
    LET n == Len(x)
        sx == SumSeq(x)
        si == SumSeq([i \in 1 .. n |-> i - 1])
    IN  /\ s.den # 0
        /\ SumSeq([i \in 1 .. n |->
               (n * (i - 1) - si)
               * (s.den * (n * x[i] - sx) - s.num * (n * (i - 1) - si))]) = 0

\* v lays out, channel by channel, mean, max, last, slope, delta.
LaidOut(v) ==
    /\ Len(v) = 30
    /\ \A k \in 1 .. 6 :
          LET x == ChannelValues(k)
              n == Len(x)
              at == 5 * (k - 1)
          IN  /\ v[at + 1].den # 0
              /\ v[at + 1].num * n = SumSeq(x) * v[at + 1].den
              /\ IsWhole(v[at + 2], MaxSeq(x))
              /\ \A i \in 1 .. n : x[i] <= MaxSeq(x)
              /\ IsWhole(v[at + 3], x[n])
              /\ IF n = 1 THEN IsWhole(v[at + 4], 0)
                          ELSE IsLeastSquaresSlope(v[at + 4], x)
              /\ IF n >= 3 THEN IsWhole(v[at + 5], x[n] - x[n - 2])
                           ELSE IsWhole(v[at + 5], 0)

\* C22: for every non-empty window the serving and the training extractor
\* each return 30 values, channel by channel in the order mq2_raw, pm25, co,
\* voc, temperature, humidity and within a channel mean, max, last, slope,
\* delta, with delta = last - value at len-3 (0 under three points) and
\* slope 0 for one point; the two vectors are equal at every position.
C22_ExtractorsAgree ==
    feature_call.made =>
        /\ LaidOut(feature_call.serving)
        /\ LaidOut(feature_call.training)
        /\ \A j \in 1 .. 30 :
               feature_call.serving[j] = feature_call.training[j]

\* C22 witness: a window of four rows that rises and falls, so that the
\* slope and the delta of the first channel differ in sign.
C22_Witness ==
    /\ feature_call.made
    /\ Len(feature_call.window) = 4
    /\ feature_call.serving[4].num * feature_call.serving[4].den > 0
    /\ feature_call.serving[5].num < 0
    /\ feature_call.serving = feature_call.training

\* C23: an artifact whose input dimensionality is not 30 is detected when
\* the service is constructed, as a ModelContractError, and the service
\* does not run; the model is never asked to predict with such an artifact.
C23_MismatchRefusedAtStartup ==
    /\ (model_service.state = "ready" => model_service.n_features_in = 30)
    /\ (model_call.made /\ model_call.model_invoked) =>
           (/\ model_service.n_features_in = 30
            /\ model_call.features = 30)

====
